---- MODULE Spec2Model ----
(***************************************************************************)
(* A model of the VSS file-level backup tool.  Two builds of the tool are  *)
(* modelled side by side:                                                  *)
(*   "subst"  : src/system_backup.cpp   (alias found by scanning C..Z and  *)
(*              mapped with the subst command)                             *)
(*   "dosdev" : src/unnamed/part_000    (fixed alias Z: mapped with        *)
(*              DefineDosDeviceW)                                          *)
(* Every request that the program makes to an external collaborator (the   *)
(* snapshot service, the alias facility, the file system, the physical     *)
(* device) is appended to `log` with its outcome, so that ordering and     *)
(* counting properties are state predicates over `log`.                    *)
(***************************************************************************)
EXTENDS Integers, Sequences, FiniteSets, TLC

VARIABLES
    variant,            \* which build runs: "subst" or "dosdev"
    pc,                 \* position of wmain
    log,                \* external requests issued so far, in order
    inUse,              \* drive letters mapped by other processes
    jobMap,             \* letter the alias facility maps for this job, 0 if none
    aliasBusyAtMap,     \* TRUE iff a map request was issued on an in-use alias
    backupComponents,   \* TRUE iff the member pointer is non-null
    mappedDriveLetter,  \* the member of the same name, 0 if none
    ret,                \* results of the handlers that have returned
    exitCode,           \* -1 while running, else the value wmain returned
    fs                  \* the snapshot's tree, the destination's tree, and what the
                        \* copy passes made of them (used by SpecMirror)

vars == <<variant, pc, log, inUse, jobMap, aliasBusyAtMap, backupComponents,
          mappedDriveLetter, ret, exitCode, fs>>

----------------------------------------------------------------------------
(* Program constants *)

LetterA == 65
FirstAlias == 67
LastAlias == 90
FixedAlias == 90
BOOT_RECORD_SIZE == 4096
LayoutOutSize == 18624

Letters == LetterA..LastAlias
AliasSpace == FirstAlias..LastAlias

(* Sample sizes a device may report *)
ShortRead == 512
LayoutReturned == 192

(* Letters whose state varies between runs and under interference; the    *)
(* other letters are either all free or all in use.                        *)
VarLetters == {LetterA, FirstAlias, LastAlias}
Masks == { base \cup s : base \in {{}, Letters \ VarLetters}, s \in SUBSET VarLetters }

Variants == {"subst", "dosdev"}
AsyncOutcomes == {"fail", "null", "waitfail", "ok"}

----------------------------------------------------------------------------
(* Log entries *)

E(op, ok, arg) == [op |-> op, ok |-> ok, arg |-> arg]

(* A run of CHECK_HR_AND_FAIL calls: the calls up to and including the     *)
(* first one that fails (f = 0: none fails).                               *)
CheckHrSeq(ops, f) ==
    [i \in 1..(IF f = 0 THEN Len(ops) ELSE f) |-> E(ops[i], i # f, 0)]

(* Variant of AsyncStep that tests the result of the wait before it        *)
(* releases the token.                                                     *)
AsyncStepCheckBeforeRelease(req, wait, rel, o) ==
    IF o = "fail" THEN <<E(req, FALSE, 0)>>
    ELSE IF o = "null" THEN <<E(req, TRUE, 0)>>
    ELSE IF o = "waitfail" THEN <<E(req, TRUE, 1), E(wait, FALSE, 0)>>
    ELSE <<E(req, TRUE, 1), E(wait, TRUE, 0), E(rel, TRUE, 0)>>

(* Issue an asynchronous request, wait on its token, release the token.    *)
(* The request's arg is 1 when it handed out a token (pAsync non-null).    *)
AsyncStep(req, wait, rel, o) ==
    IF o = "fail" THEN <<E(req, FALSE, 0)>>
    ELSE IF o = "null" THEN <<E(req, TRUE, 0)>>
    ELSE <<E(req, TRUE, 1), E(wait, o = "ok", 0), E(rel, TRUE, 0)>>

AsyncOk(o) == o \in {"null", "ok"}

----------------------------------------------------------------------------
(* The alias facility *)

(* The bitmask GetLogicalDrives reports for a set of letters: bit 0 is A.  *)
RECURSIVE MaskFrom(_, _)
MaskFrom(S, letter) ==
    IF letter > LastAlias THEN 0
    ELSE (IF letter \in S THEN 2 ^ (letter - LetterA) ELSE 0) + MaskFrom(S, letter + 1)

MaskOf(S) == MaskFrom(S, LetterA)

GetLogicalDrives == MaskOf(inUse \cup (IF jobMap = 0 THEN {} ELSE {jobMap}))

BitSet(mask, n) == (mask \div (2 ^ n)) % 2 = 1

(* Variant of ScanLetters that hands out the last letter when none is free. *)
RECURSIVE ScanLettersLast(_, _)
ScanLettersLast(drivesMask, letter) ==
    IF letter > LastAlias THEN LastAlias
    ELSE IF ~BitSet(drivesMask, letter - LetterA) THEN letter
    ELSE ScanLettersLast(drivesMask, letter + 1)

RECURSIVE ScanLetters(_, _)
ScanLetters(drivesMask, letter) ==
    IF letter > LastAlias THEN 0
    ELSE IF ~BitSet(drivesMask, letter - LetterA) THEN letter
    ELSE ScanLetters(drivesMask, letter + 1)

(* Variant of FindAvailableDriveLetter whose scan starts at A.             *)
FindAvailableDriveLetterFromA(drivesMask) == ScanLetters(drivesMask, LetterA)

FindAvailableDriveLetter(drivesMask) == ScanLetters(drivesMask, FirstAlias)

isDriveLetterAvailable(drivesMask, letter) == ~BitSet(drivesMask, letter - LetterA)

(* Variant of CleanupSubstDrive that does not reset the member.            *)
CleanupSubstDriveKeep(letter, unmapOk) ==
    [calls  |-> IF letter # 0 THEN <<E("subst /d", unmapOk, letter)>> ELSE <<>>,
     letter |-> letter]

(* CleanupSubstDrive: the requests it issues, and the member afterwards.   *)
CleanupSubstDrive(letter, unmapOk) ==
    [calls  |-> IF letter # 0 THEN <<E("subst /d", unmapOk, letter)>> ELSE <<>>,
     letter |-> 0]

----------------------------------------------------------------------------
(* Handlers of class VSSFileLevelBackup, as functions of the outcomes the  *)
(* external calls report.                                                  *)

InitializeOps ==
    <<"CoInitializeEx", "CreateVssBackupComponents", "InitializeForBackup", "SetBackupState">>

Initialize(f) ==
    [calls |-> CheckHrSeq(InitializeOps, f),
     ret   |-> f = 0,
     backupComponents |-> (f = 0 \/ f > 2)]

(* Variant of CreateSnapshot that ignores the result of the prepare wait.  *)
CreateSnapshotNoWaitCheck(oStart, oAdd, oPrep, oSnap) ==
    LET snap == AsyncStep("DoSnapshotSet", "DoSnapshotSet.Wait", "DoSnapshotSet.Release", oSnap)
        prep == AsyncStep("PrepareForBackup", "PrepareForBackup.Wait", "PrepareForBackup.Release", oPrep)
                  \o (IF oPrep # "fail" THEN snap ELSE <<>>)
        add  == <<E("AddToSnapshotSet", oAdd, 0)>> \o (IF oAdd THEN prep ELSE <<>>)
    IN  [calls |-> <<E("StartSnapshotSet", oStart, 0)>> \o (IF oStart THEN add ELSE <<>>),
         ret   |-> oStart /\ oAdd /\ oPrep # "fail" /\ AsyncOk(oSnap)]

CreateSnapshot(oStart, oAdd, oPrep, oSnap) ==
    LET snap == AsyncStep("DoSnapshotSet", "DoSnapshotSet.Wait", "DoSnapshotSet.Release", oSnap)
        prep == AsyncStep("PrepareForBackup", "PrepareForBackup.Wait", "PrepareForBackup.Release", oPrep)
                  \o (IF AsyncOk(oPrep) THEN snap ELSE <<>>)
        add  == <<E("AddToSnapshotSet", oAdd, 0)>> \o (IF oAdd THEN prep ELSE <<>>)
    IN  [calls |-> <<E("StartSnapshotSet", oStart, 0)>> \o (IF oStart THEN add ELSE <<>>),
         ret   |-> oStart /\ oAdd /\ AsyncOk(oPrep) /\ AsyncOk(oSnap)]

(* GetSnapshotProperties: arg is 1 when the device path is non-empty.      *)
GetSnapshotProperties(props) ==
    <<E("GetSnapshotProperties", props # "fail", IF props = "ok" THEN 1 ELSE 0)>>

FreeProps == <<E("VssFreeSnapshotProperties", TRUE, 0)>>

(* system_backup.cpp, FileLevelBackup up to the choice of the letter.      *)
(* returned = FALSE when the handler goes on to the map request.           *)
FileLevelBackupBegin(props, drivesMask) ==
    LET letter == FindAvailableDriveLetter(drivesMask)
        get    == GetSnapshotProperties(props)
        find   == <<E("FindAvailableDriveLetter", letter # 0, letter)>>
    IN  IF props = "fail" THEN
            [calls |-> get, letter |-> 0, returned |-> TRUE]
        ELSE IF props = "empty" THEN
            [calls |-> get \o FreeProps, letter |-> 0, returned |-> TRUE]
        ELSE IF letter = 0 THEN
            [calls |-> get \o find \o FreeProps, letter |-> 0, returned |-> TRUE]
        ELSE
            [calls |-> get \o find, letter |-> letter, returned |-> FALSE]

(* Variant of FileLevelBackupMapped whose result also depends on the       *)
(* removal of the mapping.                                                 *)
FileLevelBackupMappedUnmapDecides(letter, substOk, enum, copy, unmapOk) ==
    LET map    == <<E("subst", substOk, letter)>>
        cl     == CleanupSubstDrive(letter, unmapOk)
        list   == <<E("directory_iterator", enum # "throw", 0)>>
        mkdir  == <<E("create_directories", copy # "mkdirthrow", 0)>>
        cp     == <<E("copy", copy = "ok", 0)>>
    IN  IF ~substOk THEN
            [calls |-> map \o FreeProps, letter |-> letter, ret |-> FALSE]
        ELSE IF enum = "throw" THEN
            [calls |-> map \o list \o cl.calls \o FreeProps, letter |-> cl.letter, ret |-> FALSE]
        ELSE IF copy = "mkdirthrow" THEN
            [calls |-> map \o list \o mkdir \o cl.calls \o FreeProps,
             letter |-> cl.letter, ret |-> FALSE]
        ELSE
            [calls |-> map \o list \o mkdir \o cp \o cl.calls \o FreeProps,
             letter |-> cl.letter, ret |-> copy = "ok" /\ unmapOk]

(* system_backup.cpp, FileLevelBackup from the map request to its return.  *)
FileLevelBackupMapped(letter, substOk, enum, copy, unmapOk) ==
    LET map    == <<E("subst", substOk, letter)>>
        cl     == CleanupSubstDrive(letter, unmapOk)
        list   == <<E("directory_iterator", enum # "throw", 0)>>
        mkdir  == <<E("create_directories", copy # "mkdirthrow", 0)>>
        cp     == <<E("copy", copy = "ok", 0)>>
    IN  IF ~substOk THEN
            [calls |-> map \o FreeProps, letter |-> letter, ret |-> FALSE]
        ELSE IF enum = "throw" THEN
            [calls |-> map \o list \o cl.calls \o FreeProps, letter |-> cl.letter, ret |-> FALSE]
        ELSE IF copy = "mkdirthrow" THEN
            [calls |-> map \o list \o mkdir \o cl.calls \o FreeProps,
             letter |-> cl.letter, ret |-> FALSE]
        ELSE
            [calls |-> map \o list \o mkdir \o cp \o cl.calls \o FreeProps,
             letter |-> cl.letter, ret |-> copy = "ok"]

(* Variant of FileLevelBackupDos that leaks the properties when the copy   *)
(* throws.                                                                 *)
FileLevelBackupDosLeak(props, mapOk, copy, unmapOk) ==
    LET get    == GetSnapshotProperties(props)
        map    == <<E("DefineDosDeviceW", mapOk, FixedAlias)>>
        unmap  == <<E("DefineDosDeviceW.Remove", unmapOk, FixedAlias)>>
        mkdir  == <<E("create_directories", copy # "mkdirthrow", 0)>>
        cp     == <<E("copy", copy = "ok", 0)>>
    IN  IF props = "fail" THEN [calls |-> get, ret |-> FALSE]
        ELSE IF props = "empty" THEN [calls |-> get \o FreeProps, ret |-> FALSE]
        ELSE IF ~mapOk THEN [calls |-> get \o map \o FreeProps, ret |-> FALSE]
        ELSE IF copy = "mkdirthrow" THEN
            [calls |-> get \o map \o mkdir \o unmap, ret |-> FALSE]
        ELSE IF copy = "copythrow" THEN
            [calls |-> get \o map \o mkdir \o cp \o unmap, ret |-> FALSE]
        ELSE
            [calls |-> get \o map \o mkdir \o cp \o unmap \o FreeProps, ret |-> TRUE]

(* Variant of FileLevelBackupDos without the empty-path check.             *)
FileLevelBackupDosNoEmptyCheck(props, mapOk, copy, unmapOk) ==
    LET get    == GetSnapshotProperties(props)
        map    == <<E("DefineDosDeviceW", mapOk, FixedAlias)>>
        unmap  == <<E("DefineDosDeviceW.Remove", unmapOk, FixedAlias)>>
        mkdir  == <<E("create_directories", copy # "mkdirthrow", 0)>>
        cp     == <<E("copy", copy = "ok", 0)>>
    IN  IF props = "fail" THEN [calls |-> get, ret |-> FALSE]
        ELSE IF ~mapOk THEN [calls |-> get \o map \o FreeProps, ret |-> FALSE]
        ELSE IF copy = "mkdirthrow" THEN
            [calls |-> get \o map \o mkdir \o unmap \o FreeProps, ret |-> FALSE]
        ELSE
            [calls |-> get \o map \o mkdir \o cp \o unmap \o FreeProps, ret |-> copy = "ok"]

(* Variant of FileLevelBackupDos whose catch block does not remove the     *)
(* mapping.                                                                *)
FileLevelBackupDosNoUnmapInCatch(props, mapOk, copy, unmapOk) ==
    LET get    == GetSnapshotProperties(props)
        map    == <<E("DefineDosDeviceW", mapOk, FixedAlias)>>
        unmap  == <<E("DefineDosDeviceW.Remove", unmapOk, FixedAlias)>>
        mkdir  == <<E("create_directories", copy # "mkdirthrow", 0)>>
        cp     == <<E("copy", copy = "ok", 0)>>
    IN  IF props = "fail" THEN [calls |-> get, ret |-> FALSE]
        ELSE IF props = "empty" THEN [calls |-> get \o FreeProps, ret |-> FALSE]
        ELSE IF ~mapOk THEN [calls |-> get \o map \o FreeProps, ret |-> FALSE]
        ELSE IF copy = "mkdirthrow" THEN
            [calls |-> get \o map \o mkdir \o FreeProps, ret |-> FALSE]
        ELSE IF copy = "copythrow" THEN
            [calls |-> get \o map \o mkdir \o cp \o FreeProps, ret |-> FALSE]
        ELSE
            [calls |-> get \o map \o mkdir \o cp \o unmap \o FreeProps, ret |-> TRUE]

(* unnamed/part_000, FileLevelBackup.                                      *)
FileLevelBackupDos(props, mapOk, copy, unmapOk) ==
    LET get    == GetSnapshotProperties(props)
        map    == <<E("DefineDosDeviceW", mapOk, FixedAlias)>>
        unmap  == <<E("DefineDosDeviceW.Remove", unmapOk, FixedAlias)>>
        mkdir  == <<E("create_directories", copy # "mkdirthrow", 0)>>
        cp     == <<E("copy", copy = "ok", 0)>>
    IN  IF props = "fail" THEN [calls |-> get, ret |-> FALSE]
        ELSE IF props = "empty" THEN [calls |-> get \o FreeProps, ret |-> FALSE]
        ELSE IF ~mapOk THEN [calls |-> get \o map \o FreeProps, ret |-> FALSE]
        ELSE IF copy = "mkdirthrow" THEN
            [calls |-> get \o map \o mkdir \o unmap \o FreeProps, ret |-> FALSE]
        ELSE
            [calls |-> get \o map \o mkdir \o cp \o unmap \o FreeProps, ret |-> copy = "ok"]

Cleanup(bc, o) ==
    IF bc THEN
        [calls |-> AsyncStep("BackupComplete", "BackupComplete.Wait", "BackupComplete.Release", o),
         ret   |-> AsyncOk(o)]
    ELSE [calls |-> <<>>, ret |-> TRUE]

(* Variant of the destructor that releases the handle without the null     *)
(* check.                                                                  *)
DestructorNoNullCheck(v, letter, bc, unmapOk) ==
    (IF v = "subst" THEN CleanupSubstDrive(letter, unmapOk).calls ELSE <<>>)
      \o <<E("Release", TRUE, 0)>>
      \o <<E("CoUninitialize", TRUE, 0)>>

(* ~VSSFileLevelBackup *)
Destructor(v, letter, bc, unmapOk) ==
    (IF v = "subst" THEN CleanupSubstDrive(letter, unmapOk).calls ELSE <<>>)
      \o (IF bc THEN <<E("Release", TRUE, 0)>> ELSE <<>>)
      \o <<E("CoUninitialize", TRUE, 0)>>

(* Variant of CapturePhysicalDriveMetadata that writes the whole buffers.   *)
CapturePhysicalDriveMetadataWholeBuffer(f, bytesRead, bytesReturned) ==
    LET steps == <<E("CreateFileW", f # 1, 0),
                   E("ReadFile", f # 2, IF f = 2 THEN 0 ELSE bytesRead),
                   E("open boot_record.bin", f # 3, 0),
                   E("write boot_record.bin", f # 4, BOOT_RECORD_SIZE),
                   E("DeviceIoControl", f # 5, IF f = 5 THEN 0 ELSE bytesReturned),
                   E("open drive_layout.bin", f # 6, 0),
                   E("write drive_layout.bin", f # 7, LayoutOutSize)>>
        done  == SubSeq(steps, 1, IF f = 0 THEN Len(steps) ELSE f)
    IN  [calls |-> done \o (IF f = 1 THEN <<>> ELSE <<E("CloseHandle", TRUE, 0)>>),
         ret   |-> f = 0]

(* Variant of CapturePhysicalDriveMetadata whose catch blocks return        *)
(* without closing the device.                                             *)
CapturePhysicalDriveMetadataLeakInCatch(f, bytesRead, bytesReturned) ==
    LET steps == <<E("CreateFileW", f # 1, 0),
                   E("ReadFile", f # 2, IF f = 2 THEN 0 ELSE bytesRead),
                   E("open boot_record.bin", f # 3, 0),
                   E("write boot_record.bin", f # 4, bytesRead),
                   E("DeviceIoControl", f # 5, IF f = 5 THEN 0 ELSE bytesReturned),
                   E("open drive_layout.bin", f # 6, 0),
                   E("write drive_layout.bin", f # 7, bytesReturned)>>
        done  == SubSeq(steps, 1, IF f = 0 THEN Len(steps) ELSE f)
    IN  [calls |-> done \o (IF f \in {1, 4, 7} THEN <<>> ELSE <<E("CloseHandle", TRUE, 0)>>),
         ret   |-> f = 0]

(* CapturePhysicalDriveMetadata: f is the first step that fails (0: none), *)
(* steps 1 CreateFileW, 2 ReadFile, 3 open boot_record.bin, 4 write it,    *)
(* 5 DeviceIoControl, 6 open drive_layout.bin, 7 write it.                 *)
CapturePhysicalDriveMetadata(f, bytesRead, bytesReturned) ==
    LET steps == <<E("CreateFileW", f # 1, 0),
                   E("ReadFile", f # 2, IF f = 2 THEN 0 ELSE bytesRead),
                   E("open boot_record.bin", f # 3, 0),
                   E("write boot_record.bin", f # 4, bytesRead),
                   E("DeviceIoControl", f # 5, IF f = 5 THEN 0 ELSE bytesReturned),
                   E("open drive_layout.bin", f # 6, 0),
                   E("write drive_layout.bin", f # 7, bytesReturned)>>
        done  == SubSeq(steps, 1, IF f = 0 THEN Len(steps) ELSE f)
    IN  [calls |-> done \o (IF f = 1 THEN <<>> ELSE <<E("CloseHandle", TRUE, 0)>>),
         ret   |-> f = 0]

----------------------------------------------------------------------------
(* The file trees and std::filesystem::copy with the options               *)
(* recursive | overwrite_existing.  A tree maps names to nodes; a node is  *)
(* a file with its content or a directory with its tree.  Directory        *)
(* entries are visited in name order; the order only decides what a copy   *)
(* that throws leaves behind.                                              *)

NameOrder == <<"a", "b">>
NameSet == {NameOrder[i] : i \in DOMAIN NameOrder}
Contents == {1, 2}

(* Sizes of the sample trees and number of copy passes *)
MaxNodes == 3
MaxPasses == 2

File(c) == [kind |-> "file", data |-> c, kids |-> <<>>]
Dir(t) == [kind |-> "dir", data |-> 0, kids |-> t]

FlatTrees == UNION {[D -> {File(c) : c \in Contents}] : D \in SUBSET NameSet}
Nodes == {File(c) : c \in Contents} \cup {Dir(t) : t \in FlatTrees}
Trees == UNION {[D -> Nodes] : D \in SUBSET NameSet}

RECURSIVE Size(_, _)
Size(t, i) ==
    IF i > Len(NameOrder) THEN 0
    ELSE IF NameOrder[i] \notin DOMAIN t THEN Size(t, i + 1)
    ELSE 1 + Size(t[NameOrder[i]].kids, 1) + Size(t, i + 1)

SmallTrees == {t \in Trees : Size(t, 1) <= MaxNodes}

Put(t, n, node) == [x \in DOMAIN t \cup {n} |-> IF x = n THEN node ELSE t[x]]

(* Variant of copy_file that removes an existing target and does not write *)
(* the new one.                                                            *)
copy_fileRemoveOnly(f, n, dir, locked) ==
    IF n \in locked THEN [ok |-> FALSE, tree |-> dir]
    ELSE IF n \in DOMAIN dir /\ dir[n].kind = "dir" THEN [ok |-> FALSE, tree |-> dir]
    ELSE IF n \in DOMAIN dir THEN [ok |-> TRUE, tree |-> [x \in DOMAIN dir \ {n} |-> dir[x]]]
    ELSE [ok |-> TRUE, tree |-> Put(dir, n, File(f.data))]

(* copy_file(from, dir/n, overwrite_existing): fails when the source       *)
(* cannot be read or the target is a directory.                            *)
copy_file(f, n, dir, locked) ==
    IF n \in locked THEN [ok |-> FALSE, tree |-> dir]
    ELSE IF n \in DOMAIN dir /\ dir[n].kind = "dir" THEN [ok |-> FALSE, tree |-> dir]
    ELSE [ok |-> TRUE, tree |-> Put(dir, n, File(f.data))]

RECURSIVE CopyEntry(_, _, _, _)
RECURSIVE CopyInto(_, _, _, _)

(* copy(from, to) for the entry named n of a directory being copied into   *)
(* the tree dir.                                                           *)
CopyEntry(f, n, dir, locked) ==
    LET exists == n \in DOMAIN dir
    IN  IF f.kind = "dir" THEN
            IF exists /\ dir[n].kind = "file" THEN [ok |-> FALSE, tree |-> dir]
            ELSE LET r == CopyInto(f.kids, IF exists THEN dir[n].kids ELSE <<>>, 1, locked)
                 IN  [ok |-> r.ok, tree |-> Put(dir, n, Dir(r.tree))]
        ELSE IF exists /\ dir[n].kind = "dir" THEN
            LET r == copy_file(f, n, dir[n].kids, locked)
            IN  [ok |-> r.ok, tree |-> Put(dir, n, Dir(r.tree))]
        ELSE copy_file(f, n, dir, locked)

(* The loop over the entries of a source directory, from entry i on; it    *)
(* ends at the first entry whose copy throws.                              *)
CopyInto(kids, base, i, locked) ==
    IF i > Len(NameOrder) THEN [ok |-> TRUE, tree |-> base]
    ELSE IF NameOrder[i] \notin DOMAIN kids THEN CopyInto(kids, base, i + 1, locked)
    ELSE LET r == CopyEntry(kids[NameOrder[i]], NameOrder[i], base, locked)
         IN  IF r.ok THEN CopyInto(kids, r.tree, i + 1, locked) ELSE r

(* create_directories(destFolder) followed by copy(mappedPath, destFolder) *)
MirrorCopy(src, dst, locked) == CopyInto(src, dst, 1, locked)

NoFs == [src |-> <<>>, dst |-> <<>>, locked |-> {}, passes |-> 0, first |-> <<>>, ok |-> TRUE]

----------------------------------------------------------------------------
(* wmain: where control goes after each handler returns                    *)

AfterInitialize(ok) == IF ok THEN "CreateSnapshot" ELSE "destructor"

(* Variant of wmain that goes on after a failed CreateSnapshot.            *)
AfterCreateSnapshotGoOn(ok) == "FileLevelBackup"

AfterCreateSnapshot(ok) == IF ok THEN "FileLevelBackup" ELSE "destructor"

AfterFileLevelBackup(v, ok) == IF v = "subst" /\ ~ok THEN "destructor" ELSE "Cleanup"

(* Variant of wmain that holds the console open after a failed Cleanup.    *)
AfterCleanupHold(v, ok) ==
    IF ~ok THEN "blocked" ELSE "CapturePhysicalDriveMetadata"

AfterCleanup(v, ok) ==
    IF v = "subst" /\ ~ok THEN "destructor" ELSE "CapturePhysicalDriveMetadata"

(* The transfers wmain can run on the snapshot: it calls FileLevelBackup   *)
(* unconditionally and reads no mode from the user.                        *)
TransferModes == {"file-level"}

(* Variant of wmain that returns 0 whatever the metadata capture reported. *)
FinalExitCodeZero(v, ok) == 0

(* value returned by wmain when it returns after the metadata capture      *)
FinalExitCode(v, ok) == IF v = "subst" /\ ~ok THEN 1 ELSE 0

----------------------------------------------------------------------------
(* State machine *)

NoRet == [h \in {} |-> TRUE]

Returned(h) == h \in DOMAIN ret

SetRet(h, ok) == [x \in DOMAIN ret \cup {h} |-> IF x = h THEN ok ELSE ret[x]]

Init ==
    /\ variant \in Variants
    /\ pc = "wmain"
    /\ log = <<>>
    /\ inUse \in Masks
    /\ jobMap = 0
    /\ aliasBusyAtMap = FALSE
    /\ backupComponents = FALSE
    /\ mappedDriveLetter = 0
    /\ ret = NoRet
    /\ exitCode = -1
    /\ fs = NoFs

(* The effect of a successful or failed map / unmap on the facility.       *)
MapEffect(letter, mapOk, unmapIssued, unmapOk) ==
    IF mapOk /\ ~(unmapIssued /\ unmapOk) THEN letter ELSE 0

(* wmain before the backup object is built: privilege check, prompts, and  *)
(* in part_000 the availability check of Z.                                *)
WmainStart ==
    /\ pc = "wmain"
    /\ \E isAdmin \in BOOLEAN, destEmpty \in BOOLEAN :
         LET zFree == isDriveLetterAvailable(GetLogicalDrives, FixedAlias)
             check == IF variant = "dosdev" /\ isAdmin /\ ~destEmpty
                      THEN <<E("isDriveLetterAvailable", zFree, FixedAlias)>>
                      ELSE <<>>
             go    == isAdmin /\ ~destEmpty /\ (variant = "dosdev" => zFree)
         IN  /\ log' = log \o check
             /\ pc' = IF go THEN "Initialize" ELSE "exit"
             /\ exitCode' = IF go THEN exitCode ELSE 1
    /\ UNCHANGED <<fs, variant, inUse, jobMap, aliasBusyAtMap, backupComponents,
                   mappedDriveLetter, ret>>

DoInitialize ==
    /\ pc = "Initialize"
    /\ \E f \in 0..Len(InitializeOps) :
         LET r == Initialize(f)
         IN  /\ log' = log \o r.calls
             /\ backupComponents' = r.backupComponents
             /\ ret' = SetRet("Initialize", r.ret)
             /\ pc' = AfterInitialize(r.ret)
             /\ exitCode' = IF AfterInitialize(r.ret) = "destructor" THEN 1 ELSE exitCode
    /\ UNCHANGED <<fs, variant, inUse, jobMap, aliasBusyAtMap, mappedDriveLetter>>

DoCreateSnapshot ==
    /\ pc = "CreateSnapshot"
    /\ \E oStart \in BOOLEAN, oAdd \in BOOLEAN, oPrep \in AsyncOutcomes, oSnap \in AsyncOutcomes :
         LET r == CreateSnapshot(oStart, oAdd, oPrep, oSnap)
         IN  /\ log' = log \o r.calls
             /\ ret' = SetRet("CreateSnapshot", r.ret)
             /\ pc' = AfterCreateSnapshot(r.ret)
             /\ exitCode' = IF AfterCreateSnapshot(r.ret) = "destructor" THEN 1 ELSE exitCode
    /\ UNCHANGED <<fs, variant, inUse, jobMap, aliasBusyAtMap, backupComponents, mappedDriveLetter>>

DoFileLevelBackupBegin ==
    /\ pc = "FileLevelBackup"
    /\ variant = "subst"
    /\ \E props \in {"fail", "empty", "ok"} :
         LET r == FileLevelBackupBegin(props, GetLogicalDrives)
             nxt == AfterFileLevelBackup(variant, FALSE)
         IN  /\ log' = log \o r.calls
             /\ mappedDriveLetter' = r.letter
             /\ IF r.returned
                THEN /\ ret' = SetRet("FileLevelBackup", FALSE)
                     /\ pc' = nxt
                     /\ exitCode' = IF nxt = "destructor" THEN 1 ELSE exitCode
                ELSE /\ pc' = "subst"
                     /\ UNCHANGED <<ret, exitCode>>
    /\ UNCHANGED <<fs, variant, inUse, jobMap, aliasBusyAtMap, backupComponents>>

DoFileLevelBackupMapped ==
    /\ pc = "subst"
    /\ \E substOk \in BOOLEAN, enum \in {"throw", "empty", "items"},
          copy \in {"mkdirthrow", "copythrow", "ok"}, unmapOk \in BOOLEAN :
         LET r == FileLevelBackupMapped(mappedDriveLetter, substOk, enum, copy, unmapOk)
             nxt == AfterFileLevelBackup(variant, r.ret)
         IN  /\ log' = log \o r.calls
             /\ aliasBusyAtMap' = (mappedDriveLetter \in inUse)
             /\ jobMap' = MapEffect(mappedDriveLetter, substOk, substOk, unmapOk)
             /\ mappedDriveLetter' = r.letter
             /\ ret' = SetRet("FileLevelBackup", r.ret)
             /\ pc' = nxt
             /\ exitCode' = IF nxt = "destructor" THEN 1 ELSE exitCode
    /\ UNCHANGED <<fs, variant, inUse, backupComponents>>

DoFileLevelBackupDos ==
    /\ pc = "FileLevelBackup"
    /\ variant = "dosdev"
    /\ \E props \in {"fail", "empty", "ok"}, mapOk \in BOOLEAN,
          copy \in {"mkdirthrow", "copythrow", "ok"}, unmapOk \in BOOLEAN :
         LET r == FileLevelBackupDos(props, mapOk, copy, unmapOk)
             nxt == AfterFileLevelBackup(variant, r.ret)
             mapped == props = "ok" /\ mapOk
         IN  /\ log' = log \o r.calls
             /\ aliasBusyAtMap' = (props = "ok" /\ FixedAlias \in inUse)
             /\ jobMap' = MapEffect(FixedAlias, mapped, mapped, unmapOk)
             /\ ret' = SetRet("FileLevelBackup", r.ret)
             /\ pc' = nxt
             /\ exitCode' = IF nxt = "destructor" THEN 1 ELSE exitCode
    /\ UNCHANGED <<fs, variant, inUse, backupComponents, mappedDriveLetter>>

DoCleanup ==
    /\ pc = "Cleanup"
    /\ \E o \in AsyncOutcomes :
         LET r == Cleanup(backupComponents, o)
             nxt == AfterCleanup(variant, r.ret)
         IN  /\ log' = log \o r.calls
             /\ ret' = SetRet("Cleanup", r.ret)
             /\ pc' = nxt
             /\ exitCode' = IF nxt = "destructor" THEN 1 ELSE exitCode
    /\ UNCHANGED <<fs, variant, inUse, jobMap, aliasBusyAtMap, backupComponents, mappedDriveLetter>>

DoCapturePhysicalDriveMetadata ==
    /\ pc = "CapturePhysicalDriveMetadata"
    /\ \E f \in 0..7, bytesRead \in {ShortRead, BOOT_RECORD_SIZE},
          bytesReturned \in {LayoutReturned, LayoutOutSize} :
         LET r == CapturePhysicalDriveMetadata(f, bytesRead, bytesReturned)
         IN  /\ log' = log \o r.calls
             /\ ret' = SetRet("CapturePhysicalDriveMetadata", r.ret)
             /\ exitCode' = FinalExitCode(variant, r.ret)
             /\ pc' = "destructor"
    /\ UNCHANGED <<fs, variant, inUse, jobMap, aliasBusyAtMap, backupComponents, mappedDriveLetter>>

(* wmain returns after the object was built: the destructor runs.          *)
DoDestructor ==
    /\ pc = "destructor"
    /\ \E unmapOk \in BOOLEAN :
         LET calls == Destructor(variant, mappedDriveLetter, backupComponents, unmapOk)
             unmaps == variant = "subst" /\ mappedDriveLetter # 0 /\ unmapOk
         IN  /\ log' = log \o calls
             /\ jobMap' = IF unmaps /\ jobMap = mappedDriveLetter THEN 0 ELSE jobMap
             /\ inUse' = IF unmaps /\ jobMap # mappedDriveLetter
                         THEN inUse \ {mappedDriveLetter} ELSE inUse
             /\ mappedDriveLetter' = IF variant = "subst" THEN 0 ELSE mappedDriveLetter
    /\ pc' = "exit"
    /\ UNCHANGED <<fs, variant, aliasBusyAtMap, backupComponents, ret, exitCode>>

(* Another process maps or unmaps a drive letter.                          *)
OtherProcess ==
    /\ pc # "exit"
    /\ \E l \in VarLetters \ {jobMap} :
         inUse' = IF l \in inUse THEN inUse \ {l} ELSE inUse \cup {l}
    /\ UNCHANGED <<fs, variant, pc, log, jobMap, aliasBusyAtMap, backupComponents,
                   mappedDriveLetter, ret, exitCode>>

Next ==
    \/ WmainStart
    \/ DoInitialize
    \/ DoCreateSnapshot
    \/ DoFileLevelBackupBegin
    \/ DoFileLevelBackupMapped
    \/ DoFileLevelBackupDos
    \/ DoCleanup
    \/ DoCapturePhysicalDriveMetadata
    \/ DoDestructor
    \/ OtherProcess

Spec == Init /\ [][Next]_vars

----------------------------------------------------------------------------
(* wmain with waits that may never signal.  IVssAsync::Wait is called      *)
(* without a timeout: when the service never signals, the handler never    *)
(* returns and wmain stays where it is.  The requests logged are those     *)
(* issued up to the request whose token is being waited on.  The drive     *)
(* letters of other processes are any set, fixed during the run: they      *)
(* decide only what the letter scan finds.                                 *)

BlockedCalls(at, oPrep) ==
    IF at = "PrepareForBackup" THEN
        <<E("StartSnapshotSet", TRUE, 0), E("AddToSnapshotSet", TRUE, 0),
          E("PrepareForBackup", TRUE, 1)>>
    ELSE IF at = "DoSnapshotSet" THEN
        <<E("StartSnapshotSet", TRUE, 0), E("AddToSnapshotSet", TRUE, 0)>>
          \o AsyncStep("PrepareForBackup", "PrepareForBackup.Wait", "PrepareForBackup.Release", oPrep)
          \o <<E("DoSnapshotSet", TRUE, 1)>>
    ELSE <<E("BackupComplete", TRUE, 1)>>

WaitNeverSignals ==
    /\ \E at \in {"PrepareForBackup", "DoSnapshotSet", "BackupComplete"}, oPrep \in {"null", "ok"} :
         /\ pc = (IF at = "BackupComplete" THEN "Cleanup" ELSE "CreateSnapshot")
         /\ at = "BackupComplete" => backupComponents
         /\ log' = log \o BlockedCalls(at, oPrep)
    /\ pc' = "blocked"
    /\ UNCHANGED <<fs, variant, inUse, jobMap, aliasBusyAtMap, backupComponents,
                   mappedDriveLetter, ret, exitCode>>

(* The steps of wmain; as a sequential program it takes its next step      *)
(* whenever it has one.                                                    *)
Program ==
    \/ WmainStart
    \/ DoInitialize
    \/ DoCreateSnapshot
    \/ DoFileLevelBackupBegin
    \/ DoFileLevelBackupMapped
    \/ DoFileLevelBackupDos
    \/ DoCleanup
    \/ DoCapturePhysicalDriveMetadata
    \/ DoDestructor

NextWaits ==
    \/ Program
    \/ WaitNeverSignals

SpecWaits == Init /\ [][NextWaits]_vars /\ WF_vars(Program)

----------------------------------------------------------------------------
(* The copy on its own: every pair of sample trees, every set of           *)
(* unreadable file names, and up to MaxPasses runs of the copy against     *)
(* the unchanged source.                                                   *)

InitMirror ==
    /\ variant = "subst"
    /\ pc = "mirror"
    /\ log = <<>>
    /\ inUse = {}
    /\ jobMap = 0
    /\ aliasBusyAtMap = FALSE
    /\ backupComponents = TRUE
    /\ mappedDriveLetter = 0
    /\ ret = NoRet
    /\ exitCode = -1
    /\ \E s \in SmallTrees, d \in SmallTrees, l \in SUBSET NameSet :
         fs = [src |-> s, dst |-> d, locked |-> l, passes |-> 0, first |-> <<>>, ok |-> TRUE]

MirrorPass ==
    /\ pc = "mirror"
    /\ fs.passes < MaxPasses
    /\ LET r == MirrorCopy(fs.src, fs.dst, fs.locked)
       IN  fs' = [fs EXCEPT !.dst = r.tree, !.ok = r.ok, !.passes = @ + 1,
                            !.first = IF fs.passes = 0 THEN r.tree ELSE @]
    /\ UNCHANGED <<variant, pc, log, inUse, jobMap, aliasBusyAtMap, backupComponents,
                   mappedDriveLetter, ret, exitCode>>

NextMirror == MirrorPass

SpecMirror == InitMirror /\ [][NextMirror]_vars

----------------------------------------------------------------------------
(* The public operations of VSSFileLevelBackup called in any order on one  *)
(* object, up to MaxApiLog logged requests.  A call made through the null  *)
(* session handle is undefined: the process may stop there or go on.       *)

MaxApiLog == 6

InitApi ==
    /\ variant = "subst"
    /\ pc = "api"
    /\ log = <<>>
    /\ inUse = {}
    /\ jobMap = 0
    /\ aliasBusyAtMap = FALSE
    /\ backupComponents = FALSE
    /\ mappedDriveLetter = 0
    /\ ret = NoRet
    /\ exitCode = -1
    /\ fs = NoFs

ApiInitialize ==
    /\ pc = "api"
    /\ Len(log) < MaxApiLog
    /\ \E f \in 0..Len(InitializeOps), kept \in BOOLEAN :
         LET r == Initialize(f)
         IN  /\ log' = log \o r.calls
             /\ backupComponents' = IF f = 1 THEN backupComponents
                                    ELSE IF f = 2 THEN (kept /\ backupComponents)
                                    ELSE r.backupComponents
             /\ ret' = SetRet("Initialize", r.ret)
    /\ UNCHANGED <<fs, variant, pc, inUse, jobMap, aliasBusyAtMap, mappedDriveLetter, exitCode>>

ApiCreateSnapshot ==
    /\ pc = "api"
    /\ Len(log) < MaxApiLog
    /\ \E oStart \in BOOLEAN, oAdd \in BOOLEAN, oPrep \in AsyncOutcomes, oSnap \in AsyncOutcomes,
          stops \in BOOLEAN :
         LET r == CreateSnapshot(oStart, oAdd, oPrep, oSnap)
         IN  IF ~backupComponents /\ stops
             THEN /\ pc' = "crashed"
                  /\ UNCHANGED <<log, ret>>
             ELSE /\ log' = log \o r.calls
                  /\ ret' = SetRet("CreateSnapshot", r.ret)
                  /\ pc' = pc
    /\ UNCHANGED <<fs, variant, inUse, jobMap, aliasBusyAtMap, backupComponents,
                   mappedDriveLetter, exitCode>>

ApiFileLevelBackup ==
    /\ pc = "api"
    /\ Len(log) < MaxApiLog
    /\ \E props \in {"fail", "empty", "ok"}, substOk \in BOOLEAN,
          enum \in {"throw", "empty", "items"},
          copy \in {"mkdirthrow", "copythrow", "ok"}, unmapOk \in BOOLEAN, stops \in BOOLEAN :
         LET b == FileLevelBackupBegin(props, GetLogicalDrives)
             m == FileLevelBackupMapped(b.letter, substOk, enum, copy, unmapOk)
         IN  IF ~backupComponents /\ stops
             THEN /\ pc' = "crashed"
                  /\ UNCHANGED <<log, ret, jobMap, mappedDriveLetter>>
             ELSE IF b.returned
             THEN /\ log' = log \o b.calls
                  /\ mappedDriveLetter' = b.letter
                  /\ ret' = SetRet("FileLevelBackup", FALSE)
                  /\ UNCHANGED <<pc, jobMap>>
             ELSE /\ log' = log \o b.calls \o m.calls
                  /\ mappedDriveLetter' = m.letter
                  /\ jobMap' = MapEffect(b.letter, substOk, substOk, unmapOk)
                  /\ ret' = SetRet("FileLevelBackup", m.ret)
                  /\ pc' = pc
    /\ UNCHANGED <<fs, variant, inUse, aliasBusyAtMap, backupComponents, exitCode>>

ApiCleanup ==
    /\ pc = "api"
    /\ Len(log) < MaxApiLog
    /\ \E o \in AsyncOutcomes :
         LET r == Cleanup(backupComponents, o)
         IN  /\ log' = log \o r.calls
             /\ ret' = SetRet("Cleanup", r.ret)
    /\ UNCHANGED <<fs, variant, pc, inUse, jobMap, aliasBusyAtMap, backupComponents,
                   mappedDriveLetter, exitCode>>

NextApi ==
    \/ ApiInitialize
    \/ ApiCreateSnapshot
    \/ ApiFileLevelBackup
    \/ ApiCleanup

SpecApi == InitApi /\ [][NextApi]_vars

----------------------------------------------------------------------------
(* Vocabulary of the properties *)

Idx(ops) == {i \in DOMAIN log : log[i].op \in ops}
Count(ops) == Cardinality(Idx(ops))
Failed(ops) == {i \in Idx(ops) : ~log[i].ok}
Succeeded(ops) == {i \in Idx(ops) : log[i].ok}
Result(h) == Returned(h) /\ ret[h]
FailedHandler(h) == Returned(h) /\ ~ret[h]

PhaseRequests == <<"StartSnapshotSet", "AddToSnapshotSet", "PrepareForBackup", "DoSnapshotSet">>
PhaseWaits == {"PrepareForBackup.Wait", "DoSnapshotSet.Wait"}
PhaseOps == {PhaseRequests[k] : k \in DOMAIN PhaseRequests} \cup PhaseWaits
AllocOps == {"FindAvailableDriveLetter"}
MapOps == {"subst", "DefineDosDeviceW"}
UnmapOps == {"subst /d", "DefineDosDeviceW.Remove"}
CopyOps == {"directory_iterator", "create_directories", "copy"}
AfterSnapshotOps == {"GetSnapshotProperties"} \cup AllocOps \cup MapOps \cup CopyOps

(* The step of system_backup.cpp's FileLevelBackup that reads the drive    *)
(* mask and scans it.                                                      *)
AllocStep ==
    /\ pc = "FileLevelBackup"
    /\ variant = "subst"
    /\ Len(log') > Len(log)
    /\ \E i \in DOMAIN log' : i > Len(log) /\ log'[i].op \in AllocOps

AllocatedLetter == mappedDriveLetter'

----------------------------------------------------------------------------
(* C1: the snapshot requests are issued in the order StartSnapshotSet,     *)
(* AddToSnapshotSet, PrepareForBackup, DoSnapshotSet, each at most once    *)
(* and none before its predecessor; once one of them or its wait has       *)
(* failed, no later phase, properties retrieval, allocation, map or copy   *)
(* request follows.                                                        *)
C1_PhasesInOrderAndAbortOnFailure ==
    /\ \A k \in DOMAIN PhaseRequests : Count({PhaseRequests[k]}) <= 1
    /\ \A k \in DOMAIN PhaseRequests, i \in DOMAIN log :
         (k > 1 /\ log[i].op = PhaseRequests[k]) =>
            \E j \in 1..(i - 1) : log[j].op = PhaseRequests[k - 1] /\ log[j].ok
    /\ \A i \in Idx(PhaseWaits) : log[i - 1].op \in {"PrepareForBackup", "DoSnapshotSet"}
    /\ \A i \in Failed(PhaseOps), j \in DOMAIN log :
         j > i => log[j].op \notin PhaseOps \cup AfterSnapshotOps

C1_Witness ==
    /\ pc = "exit"
    /\ Failed({"PrepareForBackup.Wait"}) # {}

(* C2: Cleanup is invoked exactly once in every run that built the backup  *)
(* object, whatever Initialize, CreateSnapshot and FileLevelBackup         *)
(* returned: when wmain has returned, Cleanup was invoked, and at no time  *)
(* has BackupComplete been requested twice.                                *)
C2_CompleteInvokedOncePerJob ==
    /\ Count({"BackupComplete"}) <= 1
    /\ (pc = "exit" /\ Returned("Initialize")) => Returned("Cleanup")

(* C3: a successful map request is followed by at most one unmap request   *)
(* for the same alias, and by exactly one once the job has ended.          *)
C3_UnmapOncePerMap ==
    \A i \in Succeeded(MapOps) :
        LET n == Cardinality({j \in Idx(UnmapOps) : j > i /\ log[j].arg = log[i].arg})
        IN  /\ n <= 1
            /\ pc = "exit" => n = 1

C3_Witness ==
    /\ pc = "exit"
    /\ Succeeded(MapOps) # {}
    /\ Failed({"copy"}) # {}
    /\ Count(UnmapOps) = 1

(* C4: the snapshot properties are released exactly once when              *)
(* FileLevelBackup has returned and their retrieval succeeded, and never   *)
(* when the retrieval failed.                                              *)
C4_PropertiesReleasedOnce ==
    LET got   == Cardinality(Succeeded({"GetSnapshotProperties"}))
        freed == Count({"VssFreeSnapshotProperties"})
    IN  /\ got <= 1
        /\ freed <= got
        /\ Returned("FileLevelBackup") => freed = got

C4_Witness ==
    /\ Returned("FileLevelBackup")
    /\ Failed({"create_directories"}) # {}
    /\ Count({"VssFreeSnapshotProperties"}) = 1

(* C5: when wmain has returned after building the backup object, the       *)
(* session handle was released exactly once if CreateVssBackupComponents   *)
(* handed one out, and never otherwise.                                    *)
C5_SessionHandleReleasedOnce ==
    LET got      == Cardinality(Succeeded({"CreateVssBackupComponents"}))
        released == Count({"Release"})
    IN  /\ released <= got
        /\ (pc = "exit" /\ Returned("Initialize")) => released = got

C5_Witness ==
    /\ pc = "exit"
    /\ Failed({"InitializeForBackup"}) # {}
    /\ Count({"Release"}) = 1

(* C6: in a run where CreateSnapshot failed, no alias is allocated and no  *)
(* map request is issued.                                                  *)
C6_NoAliasAfterFailedSnapshot ==
    FailedHandler("CreateSnapshot") => Count(AllocOps \cup MapOps) = 0

C6_Witness ==
    /\ pc = "exit"
    /\ variant = "subst"
    /\ Failed({"PrepareForBackup"}) # {}

(* C7: when the letter scan runs while every letter of the alias space is  *)
(* in use, no letter is allocated, FileLevelBackup returns failure and     *)
(* does not go on to the map request; a run whose allocation failed        *)
(* holds no map request.                                                   *)
C7_NoAliasAvailable ==
    /\ [][(AllocStep /\ AliasSpace \subseteq inUse) =>
             /\ AllocatedLetter = 0
             /\ pc' # "subst"
             /\ Returned("FileLevelBackup")' /\ ~ret'["FileLevelBackup"]
             /\ Count(MapOps)' = 0]_vars
    /\ [](Failed(AllocOps) # {} => Count(MapOps) = 0 /\ FailedHandler("FileLevelBackup"))

C7_Witness ==
    /\ pc = "exit"
    /\ Failed(AllocOps) # {}
    /\ AliasSpace \subseteq inUse

(* C8: the letter scan returns the lowest letter of the alias space C..Z   *)
(* that is not in use, and no letter exactly when every letter of the      *)
(* alias space is in use.                                                  *)
C8_FirstFreeLetter ==
    [][AllocStep =>
         IF AliasSpace \subseteq inUse
         THEN AllocatedLetter = 0
         ELSE /\ AllocatedLetter \in AliasSpace \ inUse
              /\ \A l \in AliasSpace : l < AllocatedLetter => l \in inUse]_vars

C8_Witness ==
    /\ pc = "subst"
    /\ mappedDriveLetter = LastAlias
    /\ LetterA \notin inUse

(* C9: no map request is issued on an alias that is in use at that moment. *)
C9_AliasUnusedAtMap == ~aliasBusyAtMap

(* C10: when the retrieval of the snapshot properties fails or yields an   *)
(* empty device path, FileLevelBackup returns failure, the retrieval is    *)
(* not repeated, and no allocation, map or copy request is issued.         *)
C10_UnusableSnapshotFailsFast ==
    \A i \in Idx({"GetSnapshotProperties"}) :
        (~log[i].ok \/ log[i].arg = 0) =>
            /\ Count({"GetSnapshotProperties"}) = 1
            /\ Count(AllocOps \cup MapOps \cup CopyOps) = 0
            /\ FailedHandler("FileLevelBackup")

C10_Witness ==
    /\ pc = "exit"
    /\ \E i \in Succeeded({"GetSnapshotProperties"}) : log[i].arg = 0

----------------------------------------------------------------------------
Handlers ==
    {"Initialize", "CreateSnapshot", "FileLevelBackup", "Cleanup", "CapturePhysicalDriveMetadata"}

(* C11: system_backup.cpp's wmain returns 0 exactly when Initialize,       *)
(* CreateSnapshot, FileLevelBackup, Cleanup and                            *)
(* CapturePhysicalDriveMetadata all returned success, and a non-zero code  *)
(* otherwise.                                                              *)
C11_ExitZeroIffAllSucceeded ==
    (variant = "subst" /\ pc = "exit") =>
        /\ exitCode \in {0, 1}
        /\ exitCode = 0 <=> \A h \in Handlers : Result(h)

C11_Witness ==
    /\ variant = "subst"
    /\ pc = "exit"
    /\ exitCode = 1
    /\ FailedHandler("CapturePhysicalDriveMetadata")

(* C12: in unnamed/part_000 a run in which FileLevelBackup, Cleanup or     *)
(* CapturePhysicalDriveMetadata returned failure does not end with exit    *)
(* code 0.                                                                 *)
C12_NoSilentSuccess ==
    (variant = "dosdev" /\ pc = "exit" /\
       \E h \in {"FileLevelBackup", "Cleanup", "CapturePhysicalDriveMetadata"} : FailedHandler(h))
        => exitCode # 0

(* C13: CapturePhysicalDriveMetadata is invoked in every run that built    *)
(* the backup object, whatever Initialize, CreateSnapshot, FileLevelBackup *)
(* and Cleanup returned.                                                   *)
C13_MetadataAlwaysAttempted ==
    (pc = "exit" /\ Returned("Initialize")) => Returned("CapturePhysicalDriveMetadata")

BootSteps == {"ReadFile", "open boot_record.bin", "write boot_record.bin"}

(* C14: when the capture has returned after the device was opened and the  *)
(* boot-record read or write failed, the layout query was still issued.    *)
C14_LayoutAttemptedAfterBootFailure ==
    (Returned("CapturePhysicalDriveMetadata") /\ Failed(BootSteps) # {})
        => Count({"DeviceIoControl"}) = 1

(* C15: a completed write of boot_record.bin has the length ReadFile       *)
(* reported as read, and a completed write of drive_layout.bin the length  *)
(* DeviceIoControl reported as returned.                                   *)
C15_ArtifactLengths ==
    /\ \A i \in Idx({"write boot_record.bin"}), j \in Idx({"ReadFile"}) :
         log[i].arg = log[j].arg
    /\ \A i \in Idx({"write drive_layout.bin"}), j \in Idx({"DeviceIoControl"}) :
         log[i].arg = log[j].arg

C15_Witness ==
    /\ \E i \in Succeeded({"write boot_record.bin"}) :
         log[i].arg = ShortRead /\ ShortRead < BOOT_RECORD_SIZE
    /\ \E i \in Succeeded({"write drive_layout.bin"}) :
         log[i].arg = LayoutReturned /\ LayoutReturned < LayoutOutSize

(* C19: once a map request has succeeded, FileLevelBackup returns success  *)
(* exactly when the copy succeeded, whether or not the removal of the      *)
(* mapping succeeded; after a failed removal wmain still runs on to its    *)
(* own return, through Cleanup when FileLevelBackup succeeded.             *)
C19_FailedUnmapDoesNotDecide ==
    /\ (Returned("FileLevelBackup") /\ Succeeded(MapOps) # {})
          => (ret["FileLevelBackup"] <=> Succeeded({"copy"}) # {})
    /\ (pc = "exit" /\ Failed(UnmapOps) # {})
          => /\ exitCode \in {0, 1}
             /\ Result("FileLevelBackup") => Returned("Cleanup")

C19_Witness ==
    /\ pc = "exit"
    /\ Failed(UnmapOps) # {}
    /\ Succeeded({"copy"}) # {}
    /\ Result("FileLevelBackup")

----------------------------------------------------------------------------
(* Properties of the copy (SpecMirror) *)

PassDone == pc = "mirror" /\ fs.passes >= 1

MirrorStatus == IF fs.ok THEN "Success" ELSE "Failed"

(* C16: after a copy pass that succeeded, the destination tree equals the  *)
(* source tree: every source entry is present with the source's content    *)
(* and entries the source does not have are gone.                          *)
C16_DestinationEqualsSource ==
    (PassDone /\ fs.ok) => fs.dst = fs.src

(* C17: running the copy a second time against the unchanged source leaves *)
(* the destination exactly as the first run left it.                       *)
C17_MirrorIdempotent ==
    (pc = "mirror" /\ fs.passes >= 2) => fs.dst = fs.first

C17_Witness ==
    /\ pc = "mirror" /\ fs.passes = 2 /\ fs.ok
    /\ fs.src # <<>> /\ fs.dst # fs.src
    /\ \E n \in DOMAIN fs.src : fs.src[n].kind = "dir" /\ fs.src[n].kids # <<>>

(* C18: when copying one file fails, that file is skipped, every other     *)
(* source file is still copied, and the result is a partial-success status *)
(* distinct from success and from failure.                                 *)
C18_FailedFileSkipped ==
    (PassDone /\ fs.locked \cap DOMAIN fs.src # {}) =>
        /\ \A n \in DOMAIN fs.src \ fs.locked :
             fs.src[n].kind = "file" =>
                 /\ n \in DOMAIN fs.dst
                 /\ fs.dst[n].kind = "file" => fs.dst[n] = fs.src[n]
        /\ ~fs.ok => MirrorStatus = "PartialSuccess"

----------------------------------------------------------------------------
(* Properties of the operations called in any order (SpecApi) *)

SessionInitialized == Succeeded({"SetBackupState"}) # {}

(* C20: Cleanup returns without stopping the process whatever Initialize   *)
(* and CreateSnapshot did or did not do before it, and when no session was *)
(* successfully initialized it issues no BackupComplete request.           *)
C20_CleanupSafeWithoutSession ==
    [][ApiCleanup =>
          /\ pc' = "api"
          /\ Returned("Cleanup")'
          /\ ~SessionInitialized => log' = log]_vars

----------------------------------------------------------------------------
(* C21: the job offers a block-level transfer mode, and every chunk it     *)
(* writes to system_image.bin lands at the offset it was read from, so     *)
(* that the image holds L bytes after a successful copy and the failing    *)
(* offset's worth after a read failure.                                    *)
C21_BlockLevelModeOffered ==
    /\ "block-level" \in TransferModes
    /\ \A i \in Idx({"write system_image.bin"}) :
         log[i].arg = Cardinality({j \in Idx({"write system_image.bin"}) : j < i})

----------------------------------------------------------------------------
(* Asynchronous requests with the wait and the release of their tokens,    *)
(* and the requests made to the snapshot service.                          *)
AsyncOps ==
    { <<"PrepareForBackup", "PrepareForBackup.Wait", "PrepareForBackup.Release">>,
      <<"DoSnapshotSet", "DoSnapshotSet.Wait", "DoSnapshotSet.Release">>,
      <<"BackupComplete", "BackupComplete.Wait", "BackupComplete.Release">> }

ServiceRequests ==
    PhaseOps \cup {"InitializeForBackup", "SetBackupState", "GetSnapshotProperties",
                   "BackupComplete", "BackupComplete.Wait"}

(* C22: a token handed out by an asynchronous request is waited on right   *)
(* after the request and released right after the wait, once each,         *)
(* whatever the wait reports; a request that handed out no token is        *)
(* followed by no wait and no release; and after a wait that reported      *)
(* failure no further request goes to the snapshot service.                *)
C22_TokensWaitedAndReleasedOnce ==
    /\ \A a \in AsyncOps :
         /\ \A i \in Idx({a[1]}) :
              IF log[i].ok /\ log[i].arg = 1
              THEN /\ i + 2 <= Len(log)
                   /\ log[i + 1].op = a[2]
                   /\ log[i + 2].op = a[3]
              ELSE i < Len(log) => log[i + 1].op \notin {a[2], a[3]}
         /\ Count({a[2]}) = Cardinality({i \in Idx({a[1]}) : log[i].ok /\ log[i].arg = 1})
         /\ Count({a[3]}) = Count({a[2]})
    /\ \A a \in AsyncOps : \A i \in Failed({a[2]}) :
         \A j \in DOMAIN log : j > i => log[j].op \notin ServiceRequests

C22_Witness ==
    /\ pc = "exit"
    /\ Failed({"BackupComplete.Wait"}) # {}
    /\ Count({"BackupComplete.Release"}) = 1
    /\ Count({"PrepareForBackup.Release"}) = 1
    /\ \E i \in Succeeded({"DoSnapshotSet"}) : log[i].arg = 0

(* An operation called out of protocol order *)
OutOfOrder(h) ==
    \/ h = "Initialize" /\ Returned("Initialize")
    \/ h = "CreateSnapshot" /\ (~Result("Initialize") \/ Returned("CreateSnapshot"))
    \/ h = "FileLevelBackup" /\ (~Result("CreateSnapshot") \/ Returned("FileLevelBackup"))
    \/ h = "Cleanup" /\ Returned("Cleanup")

FailsFast(h) ==
    /\ pc' = "api"
    /\ log' = log
    /\ Returned(h)' /\ ~ret'[h]

(* C23: an operation called out of protocol order returns failure, issues  *)
(* no request and does not stop the process on an unset session handle.    *)
C23_OutOfOrderFailsFast ==
    [][/\ (ApiInitialize /\ OutOfOrder("Initialize")) => FailsFast("Initialize")
       /\ (ApiCreateSnapshot /\ OutOfOrder("CreateSnapshot")) => FailsFast("CreateSnapshot")
       /\ (ApiFileLevelBackup /\ OutOfOrder("FileLevelBackup")) => FailsFast("FileLevelBackup")
       /\ (ApiCleanup /\ OutOfOrder("Cleanup")) => FailsFast("Cleanup")]_vars

----------------------------------------------------------------------------
(* Properties of wmain with waits that may never signal (SpecWaits) *)

Terminated == pc = "exit" /\ exitCode \in {0, 1}

BlockedOnWait ==
    /\ pc = "blocked"
    /\ log # <<>>
    /\ LET last == log[Len(log)]
       IN  /\ last.op \in {"PrepareForBackup", "DoSnapshotSet", "BackupComplete"}
           /\ last.ok /\ last.arg = 1

(* C24: every run of wmain ends with an exit code, unless it is blocked in *)
(* the wait on the token of a prepare, commit or complete request that     *)
(* never signals; so a run in which every wait signals terminates.         *)
C24_TerminatesUnlessWaitHangs == <>(Terminated \/ BlockedOnWait)

C24_Witness ==
    /\ Terminated /\ exitCode = 0
    /\ Count({"PrepareForBackup.Wait", "DoSnapshotSet.Wait", "BackupComplete.Wait"}) = 3

----------------------------------------------------------------------------
(* Further properties of wmain (Spec) *)

ArtifactOpens == {"open boot_record.bin", "open drive_layout.bin"}

(* C25: whenever the metadata capture opens boot_record.bin or             *)
(* drive_layout.bin for writing, the job has made sure before that the     *)
(* destination directory exists (a create_directories request succeeded),  *)
(* also in runs where FileLevelBackup failed before its                    *)
(* create_directories step.                                                *)
C25_DestinationExistsAtArtifactOpen ==
    \A i \in Idx(ArtifactOpens) :
        \E j \in Succeeded({"create_directories"}) : j < i

(* C26: the device handle is closed exactly once when                      *)
(* CapturePhysicalDriveMetadata has returned after opening the device,     *)
(* whichever step failed, as the last thing it does, and it is never       *)
(* closed when the open failed.                                            *)
C26_DeviceHandleClosedOnce ==
    LET opened == Cardinality(Succeeded({"CreateFileW"}))
        closed == Count({"CloseHandle"})
    IN  /\ closed <= opened
        /\ Returned("CapturePhysicalDriveMetadata") =>
             /\ Count({"CreateFileW"}) = 1
             /\ closed = opened
             /\ \A i \in Idx({"CloseHandle"}), j \in DOMAIN log :
                  log[j].op \in {"CreateFileW", "ReadFile", "DeviceIoControl"} => j < i

C26_Witness ==
    /\ Returned("CapturePhysicalDriveMetadata")
    /\ Failed({"write drive_layout.bin"}) # {}
    /\ Count({"CloseHandle"}) = 1

(* C27: every unmap request is for an alias that an earlier map request of *)
(* this job mapped successfully; after a map request that failed, nothing  *)
(* removes a mapping of that letter.                                       *)
C27_UnmapOnlyOwnMapping ==
    \A i \in Idx(UnmapOps) :
        \E j \in Succeeded(MapOps) : j < i /\ log[j].arg = log[i].arg

(* C28: CoUninitialize is called at most once for each CoInitializeEx that *)
(* succeeded, exactly once when wmain has returned, and never in a run     *)
(* where CoInitializeEx failed or was not called.                          *)
C28_ComBracketBalanced ==
    LET inits   == Cardinality(Succeeded({"CoInitializeEx"}))
        uninits == Count({"CoUninitialize"})
    IN  /\ uninits <= inits
        /\ pc = "exit" => uninits = inits

SessionEnds == {"BackupComplete", "Release"}

(* Before the request at position i, the removal of every mapping the job  *)
(* made was requested and the snapshot properties it got were released.    *)
ExposureEndedBefore(i) ==
    /\ \A j \in Succeeded(MapOps) :
         /\ j < i
         /\ \E k \in Idx(UnmapOps) : j < k /\ k < i /\ log[k].arg = log[j].arg
    /\ \A j \in Succeeded({"GetSnapshotProperties"}) :
         /\ j < i
         /\ \E k \in Idx({"VssFreeSnapshotProperties"}) : j < k /\ k < i

====
